---- MODULE Spec2Model ----
(***************************************************************************)
(* A model of GoClouds (src/main.go): the Game struct, NewGame, the        *)
(* per-tick handler Game.Update and the per-frame handler Game.Draw.       *)
(*                                                                         *)
(* Numbers.  Pixel coordinates are integers (ebiten.CursorPosition returns *)
(* ints; the random start positions are drawn from integer samples of the  *)
(* float ranges).  The fractions shade and opacity are kept in tenths.     *)
(* density and menu.treeShadow, both stepped by 0.1, are float64s: the     *)
(* record [t, e] is the real number (t + e / 2^56) / 10, and the steps     *)
(* round as float64 does.                                                  *)
(*                                                                         *)
(* A cached shadow image (an ebiten.Image) is represented by the values it *)
(* was rasterized from; NoImage is the nil pointer.                        *)
(***************************************************************************)
EXTENDS Integers, Sequences, FiniteSets, TLC

\* ---------------------------------------------------------------- constants
screenWidth == 800
screenHeight == 600
maxClouds == 100
sunRadius == 40
groundHeight == 150
numTrees == 5
groundOffset == 20

\* The literals of Update, in the model's units.
wrapMargin == 100
maxTreeDensity == 20
minTreeDensity == 1
cloudCountStep == 10
sunFloorGap == 10

\* The float64 literals of the density code: 0.0, 1.0, 0.2 and the step 0.1.
minDensity == [t |-> 0, e |-> 0]

maxDensity == [t |-> 10, e |-> 0]

startDensity == [t |-> 2, e |-> 8]

densityStep == [t |-> 1, e |-> 4]

\* The float64 literals of the shadow intensity: 0.2, 2.0, 1.0 and the step 0.1.
minTreeShadow == [t |-> 2, e |-> 8]

maxTreeShadow == [t |-> 20, e |-> 0]

defaultTreeShadow == [t |-> 10, e |-> 0]

treeShadowStep == [t |-> 1, e |-> 4]

\* float64(screenHeight - groundHeight + groundOffset): the ground line.
groundY == screenHeight - groundHeight + groundOffset

\* ------------------------------------------------------------------- bounds
\* Update ticks explored by Spec, SpecParams and SpecClouds.
MaxTicks == 3
MaxKeyTicks == 17
MaxCloudTicks == 1110
MaxSkyTicks == 7
MaxRouteTicks == 3
\* Spec stops pressing Up once this many trees exist.
MaxTrees == 6

\* ------------------------------------------------------------------ helpers
min(a, b) == IF a < b THEN a ELSE b

max(a, b) == IF a > b THEN a ELSE b

Abs(a) == IF a < 0 THEN -a ELSE a

NoImage == <<>>

\* ------------------------------------------------------------------ float64
\* 2^56 modulo m, for m up to a few hundred.
TwoTo56Mod(m) == ((268435456 % m) * (268435456 % m)) % m

\* The spacing of the float64 grid around (t + e/2^56)/10, in units of 2^-56.
Ulp(t, e) ==
  LET neg == t < 0 \/ (t = 0 /\ e < 0)
      at == IF neg THEN -t ELSE t
      ae == IF neg THEN -e ELSE e
  IN  IF at <= 1 THEN 1
      ELSE IF at = 2 THEN 2
      ELSE IF at <= 4 THEN 4
      ELSE IF at = 5 THEN (IF ae < 0 THEN 4 ELSE 8)
      ELSE IF at <= 9 THEN 8
      ELSE IF at = 10 THEN (IF ae < 0 THEN 8 ELSE 16)
      ELSE IF at <= 19 THEN 16
      ELSE IF at = 20 THEN (IF ae < 0 THEN 16 ELSE 32)
      ELSE 32

\* The exact sum or difference rounded to the nearest float64, ties to even.
RoundF64(t, e) ==
  LET m == 10 * Ulp(t, e)
      r == (t * TwoTo56Mod(m) + e) % m
      q == (t * TwoTo56Mod(2 * m) + e - r) % (2 * m)
  IN  IF r = 0 THEN [t |-> t, e |-> e]
      ELSE IF 2 * r < m \/ (2 * r = m /\ q = 0) THEN [t |-> t, e |-> e - r]
      ELSE [t |-> t, e |-> e + m - r]

F64Add(a, b) == RoundF64(a.t + b.t, a.e + b.e)

F64Sub(a, b) == RoundF64(a.t - b.t, a.e - b.e)

F64Less(a, b) == a.t < b.t \/ (a.t = b.t /\ a.e < b.e)

\* math.Min and math.Max.
F64Min(a, b) == IF F64Less(a, b) THEN a ELSE b

F64Max(a, b) == IF F64Less(b, a) THEN a ELSE b

\* The float64 grid spacing from the integer b >= 1 upwards, in units of 2^-56.
SpacingAt(b) ==
  LET k == CHOOSE j \in 0..7 : 2^j <= b /\ b < 2^(j + 1)
  IN  2^(k + 4)

\* The float64 grid spacing just below the integer b >= 1, in units of 2^-56.
SpacingBelow(b) ==
  LET k == CHOOSE j \in 0..7 : 2^j <= b /\ b < 2^(j + 1)
  IN  IF b = 2^k THEN 2^(k + 3) ELSE 2^(k + 4)

\* int(math.Floor(v * float64(n))) for a count n >= 0.  The exact product is
\* base + rem/10 + d with d = n*e/(10*2^56); with rem = 0 and d < 0 it lies
\* just below the integer base, and the float64 product is base itself when
\* -d is at most half the grid spacing on that side of base.
FloorTimes(v, n) ==
  LET base == (n * v.t) \div 10
  IN  IF n = 0 \/ (n * v.t) % 10 # 0 \/ v.e >= 0 THEN base
      ELSE IF base = 0 THEN -1
      ELSE IF base < 0
      THEN (IF 2 * n * (-v.e) <= 10 * SpacingAt(-base) THEN base ELSE base - 1)
      ELSE IF 2 * n * (-v.e) <= 10 * SpacingBelow(base) THEN base
      ELSE base - 1

VARIABLES
  g,           \* the *Game
  mouseDown,   \* inpututil: the left button was down in the previous tick
  status,      \* "running", "terminated" (ebiten.Termination) or "panicked"
  ticks,       \* Update calls so far
  lastOp,      \* "NewGame", "Update" or "Draw"
  upd,         \* observation of the most recent Update
  drw,         \* observation of the most recent Draw
  quiet,       \* "still": a Draw has run and only input-free Updates since,
               \* none ending a sun drag; "released": one of them ended a
               \* sun drag; "none" otherwise
  since,       \* per tree: what happened since its shadow was last rasterized
  start        \* the clouds as NewGame drew them

vars == <<g, mouseDown, status, ticks, lastOp, upd, drw, quiet, since, start>>

\* ------------------------------------------------------------------ NewGame
\* One tree as NewGame and updateTreeCount build it from their random draws.
NewTree(rnd) ==
  [x |-> rnd.x, y |-> rnd.y, size |-> rnd.size, shade |-> rnd.shade,
   shape |-> rnd.shape, shadow |-> NoImage, shadowUpdated |-> FALSE]

\* The ranges the random draws of a tree come from.  rand.Float64 is below
\* 1, but with its largest value the float64 sums of y and size round up to
\* the upper end of their range.
IsTreeDraw(rnd) ==
  /\ 50 <= rnd.x /\ rnd.x < 50 + (screenWidth - 100)
  /\ groundY <= rnd.y /\ rnd.y <= groundY + (groundHeight - groundOffset)
  /\ 50 <= rnd.size /\ rnd.size <= 80
  /\ 7 <= rnd.shade /\ rnd.shade < 10
  /\ rnd.shape \in 0..2

\* The ranges the random draws of a cloud come from; the float64 sums of
\* speed and size round up to the upper end with the largest rand.Float64.
IsCloudDraw(c) ==
  /\ 0 <= c.x /\ c.x < screenWidth
  /\ 0 <= c.y /\ 10 * c.y < screenHeight * 6
  /\ 1 <= c.speed /\ c.speed <= 3
  /\ 30 <= c.size /\ c.size <= 80
  /\ 3 <= c.opacity /\ c.opacity < 8

NewGame(cloudDraws, treeDraws) ==
  [clouds |-> cloudDraws,
   trees |-> [i \in 1..numTrees |-> NewTree(treeDraws[i])],
   density |-> startDensity,
   sunX |-> screenWidth \div 2,
   sunY |-> screenHeight - groundHeight - 10,
   isDraggingSun |-> FALSE,
   dragStartX |-> 0,
   dragStartY |-> 0,
   menu |-> [visible |-> FALSE, treeDensity |-> numTrees, cloudCount |-> maxClouds,
             maxClouds |-> maxClouds, selectedTree |-> -1,
             treeShadow |-> defaultTreeShadow],
   draggedTree |-> -1,
   dragTreeStartX |-> 0,
   sunMoved |-> TRUE]

\* ------------------------------------------------------------------- Update
\* A cloud step that carries the overshoot over to the left side.
AdvanceCloud_Modular(c) ==
  LET nx == c.x + c.speed
  IN  [c EXCEPT !.x = IF nx > screenWidth + wrapMargin
                      THEN nx - (screenWidth + 2 * wrapMargin) ELSE nx]

\* A cloud step that stops at the right margin instead of starting over.
AdvanceCloud_Parks(c) ==
  LET nx == c.x + c.speed
  IN  [c EXCEPT !.x = IF nx > screenWidth + wrapMargin THEN c.x ELSE nx]

\* A cloud step without the reset.
AdvanceCloud_NoWrap(c) == [c EXCEPT !.x = c.x + c.speed]

\* The cloud step of Update: advance, and reset past the right margin.
AdvanceCloud(c) ==
  LET nx == c.x + c.speed
  IN  [c EXCEPT !.x = IF nx > screenWidth + wrapMargin THEN -wrapMargin ELSE nx]

MoveClouds(gg) ==
  [gg EXCEPT !.clouds = [i \in DOMAIN gg.clouds |-> AdvanceCloud(gg.clouds[i])]]

\* A toggle that also forces a shadow update.
ToggleMenu_Invalidates(gg, in) ==
  IF in.m THEN [gg EXCEPT !.menu.visible = ~gg.menu.visible, !.sunMoved = TRUE]
  ELSE gg

ToggleMenu(gg, in) ==
  IF in.m THEN [gg EXCEPT !.menu.visible = ~gg.menu.visible] ELSE gg

TreeDensityUp(n) == min(maxTreeDensity, n + 1)

TreeDensityDown(n) == max(minTreeDensity, n - 1)

CloudCountDown(n) == max(0, n - cloudCountStep)

CloudCountUp(n, limit) == min(limit, n + cloudCountStep)

TreeShadowDown(v) == F64Max(minTreeShadow, F64Sub(v, treeShadowStep))

TreeShadowUp(v) == F64Min(maxTreeShadow, F64Add(v, treeShadowStep))

DensityUp(v) == F64Min(maxDensity, F64Add(v, densityStep))

\* A decrease without its lower clamp.
DensityDown_NoClamp(v) == F64Sub(v, densityStep)

DensityDown(v) == F64Max(minDensity, F64Sub(v, densityStep))

\* A resize that keeps no tree.
ResizedTrees_AllFresh(old, n, rnd) == [i \in 1..n |-> NewTree(rnd)]

\* updateTreeCount on old trees `old` with the new count n.
ResizedTrees(old, n, rnd) ==
  [i \in 1..n |->
     IF i <= Len(old) THEN [old[i] EXCEPT !.shadowUpdated = FALSE]
     ELSE NewTree(rnd)]

updateTreeCount(gg, rnd) ==
  [gg EXCEPT !.trees = ResizedTrees(gg.trees, gg.menu.treeDensity, rnd),
             !.sunMoved = TRUE]

KeyUpVisible(gg, in, rnd) ==
  IF in.up
  THEN updateTreeCount([gg EXCEPT !.menu.treeDensity = TreeDensityUp(@)], rnd)
  ELSE gg

KeyDownVisible(gg, in, rnd) ==
  IF in.down
  THEN updateTreeCount([gg EXCEPT !.menu.treeDensity = TreeDensityDown(@)], rnd)
  ELSE gg

KeyLeft(gg, in) ==
  IF in.left THEN [gg EXCEPT !.menu.cloudCount = CloudCountDown(@)] ELSE gg

KeyRight(gg, in) ==
  IF in.right
  THEN [gg EXCEPT !.menu.cloudCount = CloudCountUp(@, gg.menu.maxClouds)]
  ELSE gg

KeyS(gg, in) ==
  IF in.s
  THEN [gg EXCEPT !.menu.treeShadow = TreeShadowDown(@), !.sunMoved = TRUE]
  ELSE gg

KeyD(gg, in) ==
  IF in.d
  THEN [gg EXCEPT !.menu.treeShadow = TreeShadowUp(@), !.sunMoved = TRUE]
  ELSE gg

KeysHidden(gg, in) ==
  LET a == IF in.up THEN [gg EXCEPT !.density = DensityUp(@)] ELSE gg
  IN  IF in.down THEN [a EXCEPT !.density = DensityDown(@)] ELSE a

\* The if/else on g.menu.visible with its key handlers, in source order.
HandleKeys(gg, in, rnd) ==
  IF gg.menu.visible
  THEN KeyD(KeyS(KeyRight(KeyLeft(
         KeyDownVisible(KeyUpVisible(gg, in, rnd), in, rnd), in), in), in), in)
  ELSE KeysHidden(gg, in)

\* The press point lies in the sun's circle.
HitSun(gg, cx, cy) ==
  LET dx == cx - gg.sunX
      dy == cy - gg.sunY
  IN  dx * dx + dy * dy <= sunRadius * sunRadius

\* The press point lies in the tree's hit rectangle (size*0.4, size*1.2).
HitTree(tree, cx, cy) ==
  /\ 10 * Abs(cx - tree.x) < 4 * tree.size
  /\ 10 * cy >= 10 * tree.y - 12 * tree.size
  /\ cy <= tree.y

\* A tree loop without its break: the last hit wins.
FirstHitTree_Last(trees, cx, cy) ==
  LET hits == {i \in 1..Len(trees) : HitTree(trees[i], cx, cy)}
  IN  IF hits = {} THEN 0 ELSE CHOOSE i \in hits : \A j \in hits : i >= j

\* The tree loop of the press handler: 1-based index of the first hit, or 0.
FirstHitTree(trees, cx, cy) ==
  LET hits == {i \in 1..Len(trees) : HitTree(trees[i], cx, cy)}
  IN  IF hits = {} THEN 0 ELSE CHOOSE i \in hits : \A j \in hits : i <= j

\* A press handler that runs the tree loop even when the sun was hit.
MousePress_NoElse(gg, in, justPressed) ==
  IF ~justPressed THEN gg
  ELSE LET i == FirstHitTree(gg.trees, in.cx, in.cy)
           a == IF HitSun(gg, in.cx, in.cy)
                THEN [gg EXCEPT !.isDraggingSun = TRUE,
                                !.dragStartX = in.cx - gg.sunX,
                                !.dragStartY = in.cy - gg.sunY]
                ELSE gg
       IN  IF i = 0 THEN a
           ELSE [a EXCEPT !.draggedTree = i - 1,
                          !.dragTreeStartX = in.cx - gg.trees[i].x]

\* The block under inpututil.IsMouseButtonJustPressed.
MousePress(gg, in, justPressed) ==
  IF ~justPressed THEN gg
  ELSE IF HitSun(gg, in.cx, in.cy)
  THEN [gg EXCEPT !.isDraggingSun = TRUE,
                  !.dragStartX = in.cx - gg.sunX,
                  !.dragStartY = in.cy - gg.sunY]
  ELSE LET i == FirstHitTree(gg.trees, in.cx, in.cy)
       IN  IF i = 0 THEN gg
           ELSE [gg EXCEPT !.draggedTree = i - 1,
                           !.dragTreeStartX = in.cx - gg.trees[i].x]

\* A horizontal clamp without its lower limit.
ClampSunX_NoLower(x) == min(screenWidth - sunRadius, x)

ClampSunX(x) == max(sunRadius, min(screenWidth - sunRadius, x))

ClampSunY(y) == max(sunRadius, min(screenHeight - groundHeight - sunFloorGap, y))

\* The drag of a tree reaches the indexed write g.trees[g.draggedTree].
TreeDragWrites(gg, in) ==
  in.held /\ ~gg.isDraggingSun /\ gg.draggedTree # -1 /\ in.cy >= groundY

\* The indexed write is out of range: the Go runtime panics.
DragPanics(gg, in) ==
  TreeDragWrites(gg, in) /\ gg.draggedTree >= Len(gg.trees)

\* The sun branch of the held block.
DragSun(gg, in) ==
  [gg EXCEPT !.sunX = ClampSunX(in.cx - gg.dragStartX),
             !.sunY = ClampSunY(in.cy - gg.dragStartY),
             !.sunMoved = TRUE]

\* A drag of a tree that lost its shadow invalidation.
DragTree_KeepsCache(gg, in) ==
  [gg EXCEPT !.trees[gg.draggedTree + 1] =
               [@ EXCEPT !.x = in.cx - gg.dragTreeStartX, !.y = in.cy]]

\* The three writes to g.trees[g.draggedTree] of the held block.
DragTree(gg, in) ==
  [gg EXCEPT !.trees[gg.draggedTree + 1] =
               [@ EXCEPT !.x = in.cx - gg.dragTreeStartX,
                         !.y = in.cy,
                         !.shadowUpdated = FALSE]]

\* A release that leaves the grab state as it is.
ReleaseDrag_KeepsGrab(gg) ==
  [gg EXCEPT !.sunMoved = (gg.isDraggingSun \/ gg.sunMoved)]

\* The else of the held block: the button is up.
ReleaseDrag(gg) ==
  [gg EXCEPT !.sunMoved = (gg.isDraggingSun \/ gg.sunMoved),
             !.isDraggingSun = FALSE,
             !.draggedTree = -1]

\* A held block that moves the sun whether or not it was grabbed.
MouseHeld_SunFollows(gg, in) ==
  IF in.held THEN DragSun(gg, in) ELSE ReleaseDrag(gg)

\* The block under ebiten.IsMouseButtonPressed and its else.
MouseHeld(gg, in) ==
  IF in.held
  THEN IF gg.isDraggingSun THEN DragSun(gg, in)
       ELSE IF TreeDragWrites(gg, in) /\ ~DragPanics(gg, in) THEN DragTree(gg, in)
       ELSE gg
  ELSE ReleaseDrag(gg)

\* Key handlers that apply the toggle after the arrow keys.
AfterKeys_ToggleLast(gg, in, rnd) ==
  ToggleMenu(HandleKeys(MoveClouds(gg), in, rnd), in)

\* The game after the key handlers of one tick.
AfterKeys(gg, in, rnd) == HandleKeys(MoveClouds(ToggleMenu(gg, in)), in, rnd)

\* The game after the press handler of one tick.
AfterPress(gg, in, justPressed, rnd) ==
  MousePress(AfterKeys(gg, in, rnd), in, justPressed)

\* The game after one whole tick without Escape.
AfterUpdate(gg, in, justPressed, rnd) ==
  MouseHeld(AfterPress(gg, in, justPressed, rnd), in)

\* The calls of updateTreeCount made by one tick: trees before and after.
ResizeCalls(gg, in, rnd) ==
  LET g0 == MoveClouds(ToggleMenu(gg, in))
      g1 == KeyUpVisible(g0, in, rnd)
      g2 == KeyDownVisible(g1, in, rnd)
      call(a, b) == [old |-> a.trees, new |-> b.trees, n |-> b.menu.treeDensity,
                     sunMoved |-> b.sunMoved]
  IN  IF ~g0.menu.visible THEN <<>>
      ELSE (IF in.up THEN <<call(g0, g1)>> ELSE <<>>)
           \o (IF in.down THEN <<call(g1, g2)>> ELSE <<>>)

\* An Update without key or pointer input.
NoInput(in) ==
  ~(in.esc \/ in.m \/ in.up \/ in.down \/ in.left \/ in.right \/ in.s \/ in.d
    \/ in.held)

\* Events of one tick that the code answers by invalidating every shadow.
InvalidatesAll(pre, post, in) ==
  \/ post.menu.visible /\ (in.up \/ in.down \/ in.s \/ in.d)
  \/ in.held /\ post.isDraggingSun
  \/ ~in.held /\ pre.isDraggingSun

\* Event of one tick that the code answers by invalidating tree i (1-based).
InvalidatesTree(post, in, i) ==
  in.held /\ ~post.isDraggingSun /\ post.draggedTree = i - 1 /\ in.cy >= groundY

\* The values a shadow depends on differ between pre and post for tree i.
ShadowInputsChanged(pre, post, i) ==
  \/ pre.sunX # post.sunX \/ pre.sunY # post.sunY
  \/ pre.menu.treeShadow # post.menu.treeShadow
  \/ i > Len(pre.trees)
  \/ pre.trees[i].x # post.trees[i].x \/ pre.trees[i].y # post.trees[i].y

SinceAfterUpdate(pre, post, in) ==
  [i \in 1..Len(post.trees) |->
     LET old == IF i <= Len(since) /\ i <= Len(pre.trees) THEN since[i]
                ELSE [event |-> TRUE, changed |-> TRUE]
     IN  [event |-> old.event \/ InvalidatesAll(pre, post, in)
                      \/ InvalidatesTree(post, in, i),
          changed |-> old.changed \/ ShadowInputsChanged(pre, post, i)]]

\* What an observer of one tick keeps of the game before it.
Before(pre) ==
  [menu |-> pre.menu, density |-> pre.density, sunX |-> pre.sunX, sunY |-> pre.sunY,
   isDraggingSun |-> pre.isDraggingSun, draggedTree |-> pre.draggedTree,
   valid |-> ~pre.sunMoved /\ \A i \in 1..Len(pre.trees) : pre.trees[i].shadowUpdated]

\* The trees (1-based) whose position differs between pre and post.
MovedTrees(pre, post) ==
  {i \in 1..min(Len(pre.trees), Len(post.trees)) :
     pre.trees[i].x # post.trees[i].x \/ pre.trees[i].y # post.trees[i].y}

\* The trees as the press handler of one tick saw them (after the keys).
PressView(keyed, justPressed) ==
  IF justPressed
  THEN [i \in 1..Len(keyed.trees) |->
          [x |-> keyed.trees[i].x, y |-> keyed.trees[i].y,
           size |-> keyed.trees[i].size]]
  ELSE <<>>

Observed(pre, keyed, post, in, resizes, justPressed) ==
  [in |-> in, pre |-> Before(pre), moved |-> MovedTrees(pre, post),
   resizes |-> resizes, justPressed |-> justPressed,
   pressTrees |-> PressView(keyed, justPressed)]

NoDraw == [pre |-> <<>>, rast |-> {}, events |-> <<>>, prevOp |-> "none",
           quiet |-> "none", since |-> <<>>]

\* One call of Update; the count of calls is left to the caller.
UpdateStep(in, rnd) ==
  /\ status = "running"
  /\ LET justPressed == in.held /\ ~mouseDown
         pressed == AfterPress(g, in, justPressed, rnd)
         post == AfterUpdate(g, in, justPressed, rnd)
     IN  IF in.esc
         THEN /\ status' = "terminated"
              /\ g' = g
              /\ since' = since
              /\ upd' = Observed(g, g, g, in, <<>>, FALSE)
         ELSE IF DragPanics(pressed, in)
         THEN /\ status' = "panicked"
              /\ g' = pressed
              /\ since' = SinceAfterUpdate(g, pressed, in)
              /\ upd' = Observed(g, AfterKeys(g, in, rnd), pressed, in,
                              ResizeCalls(g, in, rnd), justPressed)
         ELSE /\ status' = "running"
              /\ g' = post
              /\ since' = SinceAfterUpdate(g, post, in)
              /\ upd' = Observed(g, AfterKeys(g, in, rnd), post, in,
                              ResizeCalls(g, in, rnd), justPressed)
  /\ mouseDown' = in.held
  /\ lastOp' = "Update"
  /\ drw' = NoDraw
  /\ quiet' = IF quiet = "none" \/ ~NoInput(in) THEN "none"
              ELSE IF g.isDraggingSun THEN "released"
              ELSE quiet
  /\ start' = start

\* One call of Update, counted.
Update(in, rnd) == UpdateStep(in, rnd) /\ ticks' = ticks + 1

\* --------------------------------------------------------------------- Draw
\* A selection that takes the overlay's cloud count in either overlay state.
ActiveClouds_CountOnly(gg) == gg.menu.cloudCount

\* activeClouds of Draw.
ActiveClouds(gg) ==
  IF gg.menu.visible THEN gg.menu.cloudCount
  ELSE FloorTimes(gg.density, Len(gg.clouds))

\* A cache check that looks at the tree's own flag only.
NeedsRaster_FlagOnly(tree, sunMoved) == ~tree.shadowUpdated

\* The cache check of drawTree.
NeedsRaster(tree, sunMoved) == ~tree.shadowUpdated \/ sunMoved

\* The image drawTree rasterizes for a tree under the given sun and intensity.
Rasterize(tree, sunX, sunY, treeShadow) ==
  [sunX |-> sunX, sunY |-> sunY, treeShadow |-> treeShadow,
   x |-> tree.x, y |-> tree.y, size |-> tree.size]

\* A drawTree that rasterizes without marking the cache valid.
drawTree_NoMark(tree, sunX, sunY, treeShadow, sunMoved) ==
  IF NeedsRaster(tree, sunMoved)
  THEN [tree EXCEPT !.shadow = Rasterize(tree, sunX, sunY, treeShadow)]
  ELSE tree

\* The tree as drawTree leaves it.
drawTree(tree, sunX, sunY, treeShadow, sunMoved) ==
  IF NeedsRaster(tree, sunMoved)
  THEN [tree EXCEPT !.shadow = Rasterize(tree, sunX, sunY, treeShadow),
                    !.shadowUpdated = TRUE]
  ELSE tree

\* A Draw that leaves the tree references in storage order.
SortedOrders_Storage(trees, S) == {[i \in 1..Cardinality(S) |-> i]}

\* The orders sort.Slice may leave the tree references in: ascending y, ties
\* in any order.
RECURSIVE SortedOrders(_, _)
SortedOrders(trees, S) ==
  IF S = {} THEN {<<>>}
  ELSE UNION {{<<i>> \o rest : rest \in SortedOrders(trees, S \ {i})} :
              i \in {j \in S : \A k \in S : trees[j].y <= trees[k].y}}

RECURSIVE Flatten(_)
Flatten(ss) == IF ss = <<>> THEN <<>> ELSE Head(ss) \o Flatten(Tail(ss))

\* One draw call: its kind, the index of the cloud or tree it draws (or -1)
\* and, for the blit of a tree shadow, the image blitted.
DrawCall(kind, index, image) == [kind |-> kind, index |-> index, image |-> image]

\* The clouds (1-based) the two cloud loops of Draw visit.
CloudLoop(gg) == min(ActiveClouds(gg), Len(gg.clouds))

\* The first cloud loop: drawCloudShadow returns at once, drawing nothing,
\* for a cloud with y < sunY.
CloudShadowCalls(gg) ==
  [i \in 1..CloudLoop(gg) |->
     DrawCall(IF gg.clouds[i].y < gg.sunY THEN "cloudShadowNone" ELSE "cloudShadow",
              i - 1, NoImage)]

\* The tree loop: drawTree blits the tree's shadow and then draws its body.
TreeCalls(gg, order) ==
  Flatten([k \in 1..Len(order) |->
             LET i == order[k]
                 t == drawTree(gg.trees[i], gg.sunX, gg.sunY, gg.menu.treeShadow,
                               gg.sunMoved)
             IN  <<DrawCall("treeShadow", i - 1, t.shadow),
                   DrawCall("treeBody", i - 1, NoImage)>>])

\* The second cloud loop.
CloudCalls(gg) == [i \in 1..CloudLoop(gg) |-> DrawCall("cloud", i - 1, NoImage)]

\* screen.Fill, drawSun, drawGround.
BackdropCalls ==
  <<DrawCall("sky", -1, NoImage), DrawCall("sun", -1, NoImage),
    DrawCall("ground", -1, NoImage)>>

\* The overlay panel, or the hint text when the overlay is hidden.
OverlayCalls(gg) ==
  <<DrawCall(IF gg.menu.visible THEN "overlay" ELSE "hint", -1, NoImage)>>

\* A frame that draws the clouds before the trees.
DrawEvents_CloudsUnderTrees(gg, order) ==
  BackdropCalls \o CloudShadowCalls(gg) \o CloudCalls(gg) \o TreeCalls(gg, order)
  \o OverlayCalls(gg)

\* The draw calls of one frame, in the order Draw issues them.
DrawEvents(gg, order) ==
  BackdropCalls \o CloudShadowCalls(gg) \o TreeCalls(gg, order) \o CloudCalls(gg)
  \o OverlayCalls(gg)

\* What an observer of one frame keeps of the game before it.
BeforeDraw(pre) ==
  [trees |-> pre.trees, sunX |-> pre.sunX, sunY |-> pre.sunY, menu |-> pre.menu,
   density |-> pre.density]

Draw ==
  /\ status = "running"
  /\ \E order \in SortedOrders(g.trees, 1..Len(g.trees)) :
       drw' = [pre |-> BeforeDraw(g),
               rast |-> {i \in 1..Len(g.trees) : NeedsRaster(g.trees[i], g.sunMoved)},
               events |-> DrawEvents(g, order),
               prevOp |-> lastOp,
               quiet |-> quiet,
               since |-> since]
  /\ g' = [g EXCEPT
             !.trees = [i \in 1..Len(g.trees) |->
                          drawTree(g.trees[i], g.sunX, g.sunY, g.menu.treeShadow,
                                   g.sunMoved)],
             !.sunMoved = FALSE]
  /\ since' = [i \in 1..Len(g.trees) |->
                 IF NeedsRaster(g.trees[i], g.sunMoved)
                 THEN [event |-> FALSE, changed |-> FALSE]
                 ELSE since[i]]
  /\ quiet' = "still"
  /\ lastOp' = "Draw"
  /\ UNCHANGED <<mouseDown, status, ticks, upd, start>>

\* ------------------------------------------------------------------- inputs
Idle ==
  [esc |-> FALSE, m |-> FALSE, up |-> FALSE, down |-> FALSE, left |-> FALSE,
   right |-> FALSE, s |-> FALSE, d |-> FALSE, held |-> FALSE, cx |-> 0, cy |-> 0]

Keys(ks) ==
  [Idle EXCEPT !.esc = "esc" \in ks, !.m = "m" \in ks, !.up = "up" \in ks,
               !.down = "down" \in ks, !.left = "left" \in ks,
               !.right = "right" \in ks, !.s = "s" \in ks, !.d = "d" \in ks]

Held(in, p) == [in EXCEPT !.held = TRUE, !.cx = p[1], !.cy = p[2]]

\* Pointer positions: on the sun, on the sun off-centre, outside the window on
\* each side, on trees 0 and 1 at once, on tree 2, on tree 4.
CursorPoints ==
  {<<400, 440>>, <<430, 440>>, <<10, 10>>, <<-100, -50>>, <<900, 700>>,
   <<205, 480>>, <<600, 500>>, <<700, 590>>}

KeySets ==
  {{}, {"m"}, {"s"}, {"d"}, {"up"}, {"down"}, {"left"}, {"right"}, {"esc"}}

Inputs ==
  {Keys(ks) : ks \in KeySets}
  \cup {Held(Idle, p) : p \in CursorPoints}
  \cup {Held(Keys({"d"}), <<205, 480>>), Held(Keys({"down"}), <<700, 590>>),
        Held(Keys({"esc", "m", "up"}), <<400, 440>>)}

KeyInputs ==
  {Keys(ks) : ks \in {{}, {"m"}, {"up", "right", "d"}, {"down", "left", "s"},
                      {"esc"}}}

CloudInputs == {Idle, Keys({"esc"})}

\* Single keys, and the toggle together with another key.
RouteInputs ==
  {Keys(ks) : ks \in KeySets \cup {{"m", "up"}, {"m", "down"}, {"m", "left"},
                                    {"m", "s"}}}

\* A key event, a pointer event and no event; no Escape.
LiveInputs == {Idle, Keys({"m"}), Held(Idle, <<400, 440>>)}

SkyInputs == {Keys(ks) : ks \in {{}, {"m"}, {"up"}, {"left"}}}

\* Random draws.
TreeLayout ==
  <<[x |-> 200, y |-> 500, size |-> 50, shade |-> 7, shape |-> 0],
    [x |-> 210, y |-> 520, size |-> 50, shade |-> 8, shape |-> 1],
    [x |-> 600, y |-> 550, size |-> 60, shade |-> 9, shape |-> 2],
    [x |-> 400, y |-> 470, size |-> 75, shade |-> 7, shape |-> 0],
    [x |-> 700, y |-> 599, size |-> 50, shade |-> 8, shape |-> 1]>>

TreeDraws ==
  {[x |-> 50, y |-> 470, size |-> 50, shade |-> 7, shape |-> 0],
   [x |-> 749, y |-> 600, size |-> 80, shade |-> 9, shape |-> 2]}

\* Draws of the first cloud at the edges of the range of x.  Positions and
\* speeds are whole numbers, for which the float64 sum x + speed is exact.
CloudDraws ==
  {[x |-> x0, y |-> 359, speed |-> v, size |-> 79, opacity |-> 7] :
     x0 \in {0, 798, 799}, v \in {1, 2}}

\* The maxClouds clouds of NewGame, spread over the ranges of their draws.
SkyClouds ==
  [i \in 1..maxClouds |->
     [x |-> (53 * i) % screenWidth, y |-> (37 * i) % 360, speed |-> 1 + (i % 2),
      size |-> 30 + (i % 50), opacity |-> 3 + (i % 5)]]

\* The maxClouds clouds of NewGame with the first one drawn as c.
SkyCloudsWith(c) == [i \in 1..maxClouds |-> IF i = 1 THEN c ELSE SkyClouds[i]]

\* The maxClouds clouds of NewGame, all drawn with the speed v and placed in
\* the right part of the window.
EdgeClouds(v) ==
  [i \in 1..maxClouds |->
     [x |-> screenWidth - i, y |-> (37 * i) % 360, speed |-> v,
      size |-> 30 + (i % 50), opacity |-> 3 + (i % 5)]]

\* ----------------------------------------------------------- specifications
InitWith(cloudDraws, treeDraws) ==
  /\ g = NewGame(cloudDraws, treeDraws)
  /\ mouseDown = FALSE
  /\ status = "running"
  /\ ticks = 0
  /\ lastOp = "NewGame"
  /\ upd = Observed(NewGame(cloudDraws, treeDraws), NewGame(cloudDraws, treeDraws),
                    NewGame(cloudDraws, treeDraws), Idle, <<>>, FALSE)
  /\ drw = NoDraw
  /\ quiet = "none"
  /\ start = cloudDraws
  /\ since = [i \in 1..numTrees |-> [event |-> TRUE, changed |-> TRUE]]

Init == InitWith(SkyClouds, TreeLayout)

InitClouds == \E c \in CloudDraws : InitWith(SkyCloudsWith(c), TreeLayout)

InitSky == InitWith(SkyClouds, TreeLayout)

InitLive == InitWith(EdgeClouds(2), TreeLayout)

\* One tick of the game loop with pointer and key input.
Tick ==
  \E in \in Inputs, rnd \in TreeDraws :
    /\ ticks < MaxTicks
    /\ in.up => Len(g.trees) < MaxTrees
    /\ Update(in, rnd)

\* One tick with key input only.
KeyTick ==
  \E in \in KeyInputs :
    /\ ticks < MaxKeyTicks
    /\ Update(in, CHOOSE rnd \in TreeDraws : rnd.shape = 0)

\* One tick without input.
CloudTick ==
  \E in \in CloudInputs :
    /\ ticks < MaxCloudTicks
    /\ Update(in, CHOOSE rnd \in TreeDraws : rnd.shape = 0)

\* One tick with single keys and with the toggle next to another key.
RouteTick ==
  \E in \in RouteInputs :
    /\ ticks < MaxRouteTicks
    /\ Update(in, CHOOSE rnd \in TreeDraws : rnd.shape = 0)

\* One tick with the keys that select the clouds.
SkyTick ==
  \E in \in SkyInputs :
    /\ ticks < MaxSkyTicks
    /\ in.up => Len(g.trees) < MaxTrees
    /\ Update(in, CHOOSE rnd \in TreeDraws : rnd.shape = 0)

\* One tick of a game loop that runs on without end; ticks are not counted.
LiveTick ==
  \E in \in LiveInputs :
    /\ UpdateStep(in, CHOOSE rnd \in TreeDraws : rnd.shape = 0)
    /\ ticks' = ticks

\* One frame; the game loop calls Update before the first Draw.
Frame == lastOp # "NewGame" /\ Draw

Next == Tick \/ Frame

NextParams == KeyTick

NextClouds == CloudTick \/ Frame

NextSky == SkyTick \/ Frame

NextKeys == RouteTick

NextLive == LiveTick

Spec == Init /\ [][Next]_vars

SpecParams == Init /\ [][NextParams]_vars

SpecClouds == InitClouds /\ [][NextClouds]_vars

SpecSky == InitSky /\ [][NextSky]_vars

SpecKeys == Init /\ [][NextKeys]_vars

\* The game loop calls Update at every tick for as long as the game runs.
SpecLive == InitLive /\ [][NextLive]_vars /\ WF_vars(LiveTick)


\* ------------------------------------------------------------------- claims
Drawn == lastOp = "Draw"

\* The most recent Update changed the sun position / the shadow intensity
\* (neither is written by Draw, so g still holds the values it left).
SunChanged == upd.pre.sunX # g.sunX \/ upd.pre.sunY # g.sunY

IntensityChanged == upd.pre.menu.treeShadow # g.menu.treeShadow

\* C1: every tree shadow image a Draw blits was rasterized from the sun
\* position, the shadow intensity and the tree position of that Draw.
C1_NoStaleShadow ==
  Drawn =>
    \A k \in 1..Len(drw.events) :
      LET e == drw.events[k]
      IN  e.kind = "treeShadow" =>
            e.image = Rasterize(drw.pre.trees[e.index + 1], drw.pre.sunX,
                                drw.pre.sunY, drw.pre.menu.treeShadow)

\* C1 witness: a Draw blitted a cached image (no rasterization for that tree)
\* after the sun had been dragged away from its start position.
C1_Witness ==
  /\ Drawn
  /\ g.sunX # screenWidth \div 2
  /\ \E i \in 1..Len(g.trees) : i \notin drw.rast /\ g.trees[i].shadow # NoImage

\* C2 as stated: the Draw that follows an Update re-rasterizes every tree if
\* that Update moved the sun or changed the intensity, and exactly tree i if
\* it moved only tree i by dragging (sun, intensity, tree count untouched).
C2_AsStated ==
  (Drawn /\ drw.prevOp = "Update") =>
    /\ SunChanged => drw.rast = 1..Len(g.trees)
    /\ IntensityChanged => drw.rast = 1..Len(g.trees)
    /\ \A i \in 1..Len(g.trees) :
         (upd.moved = {i} /\ ~SunChanged /\ ~IntensityChanged
          /\ upd.resizes = <<>>)
         => drw.rast = {i}

\* C2 amended: as C2, the third part only for an Update that began with every
\* cache valid and in which neither S nor D was pressed on the overlay.
C2_InvalidationComplete ==
  (Drawn /\ drw.prevOp = "Update") =>
    /\ SunChanged => drw.rast = 1..Len(g.trees)
    /\ IntensityChanged => drw.rast = 1..Len(g.trees)
    /\ \A i \in 1..Len(g.trees) :
         (upd.moved = {i} /\ ~SunChanged /\ ~IntensityChanged
          /\ upd.resizes = <<>>
          /\ upd.pre.valid
          /\ ~(g.menu.visible /\ (upd.in.s \/ upd.in.d)))
         => drw.rast = {i}

\* C2 witness: with all caches valid, an Update dragged tree 0 alone and the
\* next Draw re-rasterized that tree only.
C2_Witness ==
  /\ Drawn /\ drw.prevOp = "Update"
  /\ upd.moved = {1} /\ upd.pre.valid /\ ~SunChanged /\ ~IntensityChanged
  /\ drw.rast = {1}

\* The Draw left every cached image as it was.
ImagesUntouched ==
  \A i \in 1..Len(g.trees) : g.trees[i].shadow = drw.pre.trees[i].shadow

\* C3 as stated: a Draw that follows a Draw with only input-free Updates (or
\* none) in between rasterizes nothing and leaves the images unchanged; after
\* a Draw sunMoved is false and every tree has shadowUpdated.
C3_AsStated ==
  Drawn =>
    /\ ~g.sunMoved /\ \A i \in 1..Len(g.trees) : g.trees[i].shadowUpdated
    /\ drw.quiet \in {"still", "released"} => (drw.rast = {} /\ ImagesUntouched)

\* C3 amended: as C3, for input-free Updates none of which ends a sun drag.
C3_Idempotent ==
  Drawn =>
    /\ ~g.sunMoved /\ \A i \in 1..Len(g.trees) : g.trees[i].shadowUpdated
    /\ drw.quiet = "still" => (drw.rast = {} /\ ImagesUntouched)
    /\ drw.quiet = "released" => ImagesUntouched

\* C3 witness: a second Draw after an input-free Update, the intensity having
\* been changed before the first.
C3_Witness ==
  /\ Drawn /\ drw.prevOp = "Update" /\ drw.quiet = "still"
  /\ g.menu.treeShadow # defaultTreeShadow
  /\ drw.rast = {}

\* C4 as stated: a Draw rasterizes a tree only if the sun position, the tree's
\* position or the intensity changed since its last rasterization, or it was
\* never rasterized.
C4_AsStated ==
  Drawn => \A i \in drw.rast : drw.since[i].changed

\* C4 amended: a Draw rasterizes a tree only if, since its last rasterization,
\* a tick dragged the sun (button held with the sun grabbed), ended a sun
\* drag, had S, D, Up or Down pressed on the overlay, or dragged that tree to
\* a point at or below the ground line; or the tree was never rasterized.
C4_RecomputeOnlyOnEvent ==
  Drawn => \A i \in drw.rast : drw.since[i].event

\* C4 witness: a Draw rasterized a tree after such a tick although none of the
\* values its shadow depends on had changed.
C4_Witness ==
  Drawn /\ \E i \in drw.rast : drw.since[i].event /\ ~drw.since[i].changed


Updated == lastOp = "Update"

SameTree(a, b) ==
  a.x = b.x /\ a.y = b.y /\ a.size = b.size /\ a.shade = b.shade
  /\ a.shape = b.shape

\* C5 as stated: updateTreeCount with target n leaves exactly n trees, the
\* first min(old, n) with their x, y, size, shade and shape, the others fresh
\* with 470 <= y < 600, 50 <= x < 750, 50 <= size < 80 and a shape in
\* {0,1,2}; and len(trees) = menu.treeDensity in every state.
C5_AsStated ==
  /\ Len(g.trees) = g.menu.treeDensity
  /\ \A k \in 1..Len(upd.resizes) :
       LET r == upd.resizes[k]
       IN  /\ Len(r.new) = r.n
           /\ \A i \in 1..min(Len(r.old), r.n) : SameTree(r.new[i], r.old[i])
           /\ \A i \in (Len(r.old) + 1)..r.n :
                /\ 470 <= r.new[i].y /\ r.new[i].y < 600
                /\ 50 <= r.new[i].x /\ r.new[i].x < 750
                /\ 50 <= r.new[i].size /\ r.new[i].size < 80
                /\ r.new[i].shape \in {0, 1, 2}

\* C5 amended: as C5, the fresh trees with 470 <= y <= 600 and
\* 50 <= size <= 80: the upper ends are reached when the float64 sum of the
\* largest random draw rounds up.
C5_ResizePreservesIndex ==
  /\ Len(g.trees) = g.menu.treeDensity
  /\ \A k \in 1..Len(upd.resizes) :
       LET r == upd.resizes[k]
       IN  /\ Len(r.new) = r.n
           /\ \A i \in 1..min(Len(r.old), r.n) : SameTree(r.new[i], r.old[i])
           /\ \A i \in (Len(r.old) + 1)..r.n :
                /\ 470 <= r.new[i].y /\ r.new[i].y <= 600
                /\ 50 <= r.new[i].x /\ r.new[i].x < 750
                /\ 50 <= r.new[i].size /\ r.new[i].size <= 80
                /\ r.new[i].shape \in {0, 1, 2}

\* C5 witness: an Update grew the collection by a fresh tree with y = 600 and
\* size = 80 after an earlier drag had moved one of the kept trees off its
\* start position.
C5_Witness ==
  /\ Updated
  /\ \E k \in 1..Len(upd.resizes) :
       LET r == upd.resizes[k]
       IN  /\ Len(r.new) > Len(r.old)
           /\ r.old[1].y # TreeLayout[1].y
           /\ r.new[Len(r.new)].y = 600 /\ r.new[Len(r.new)].size = 80

\* C6: a resize leaves the cache validity of every kept tree untouched: a
\* tree kept by updateTreeCount whose cache was valid before the call is
\* still valid after it.
C6_ResizeKeepsValidity ==
  \A k \in 1..Len(upd.resizes) :
    LET r == upd.resizes[k]
    IN  \A i \in 1..min(Len(r.old), r.n) :
          r.old[i].shadowUpdated => r.new[i].shadowUpdated

\* C7: the four scene parameters stay in their clamps, and an increase at the
\* maximum (a decrease at the minimum) leaves the parameter there.
C7_ParametersClamped ==
  /\ g.density.t > 0 \/ (g.density.t = 0 /\ g.density.e >= 0)
  /\ g.density.t < 10 \/ (g.density.t = 10 /\ g.density.e <= 0)
  /\ 1 <= g.menu.treeDensity /\ g.menu.treeDensity <= 20
  /\ 0 <= g.menu.cloudCount /\ g.menu.cloudCount <= 100
  /\ g.menu.cloudCount % 10 = 0
  /\ g.menu.treeShadow.t > 2 \/ (g.menu.treeShadow.t = 2 /\ g.menu.treeShadow.e >= 8)
  /\ g.menu.treeShadow.t < 20 \/ (g.menu.treeShadow.t = 20 /\ g.menu.treeShadow.e <= 0)
  /\ (Updated /\ upd.in.up /\ ~upd.in.down /\ ~upd.in.esc) =>
       /\ upd.pre.density = [t |-> 10, e |-> 0] => g.density = [t |-> 10, e |-> 0]
       /\ upd.pre.menu.treeDensity = 20 => g.menu.treeDensity = 20
  /\ (Updated /\ upd.in.down /\ ~upd.in.up /\ ~upd.in.esc) =>
       /\ upd.pre.density = [t |-> 0, e |-> 0] => g.density = [t |-> 0, e |-> 0]
       /\ upd.pre.menu.treeDensity = 1 => g.menu.treeDensity = 1
  /\ (Updated /\ upd.in.right /\ ~upd.in.left /\ ~upd.in.esc) =>
       (upd.pre.menu.cloudCount = 100 => g.menu.cloudCount = 100)
  /\ (Updated /\ upd.in.left /\ ~upd.in.right /\ ~upd.in.esc) =>
       (upd.pre.menu.cloudCount = 0 => g.menu.cloudCount = 0)
  /\ (Updated /\ upd.in.d /\ ~upd.in.s /\ ~upd.in.esc) =>
       (upd.pre.menu.treeShadow = [t |-> 20, e |-> 0]
        => g.menu.treeShadow = [t |-> 20, e |-> 0])
  /\ (Updated /\ upd.in.s /\ ~upd.in.d /\ ~upd.in.esc) =>
       (upd.pre.menu.treeShadow = [t |-> 2, e |-> 8]
        => g.menu.treeShadow = [t |-> 2, e |-> 8])

\* C7 witness: Up pressed on the overlay with the tree count already at 20.
C7_Witness ==
  /\ Updated /\ upd.in.up /\ g.menu.visible /\ ~upd.in.m
  /\ upd.pre.menu.treeDensity = 20 /\ g.menu.treeDensity = 20
  /\ g.menu.treeShadow = [t |-> 20, e |-> 0]

\* Ticks that ran to the cloud loop (the Escape tick returns before it).
RunningTicks == IF status = "terminated" THEN ticks - 1 ELSE ticks

\* x0 + N*v reduced modulo the wrap period into the wrap range.
Congruent(x, x0, v, n) ==
  /\ (x - (x0 + n * v)) % (screenWidth + 2 * 100) = 0
  /\ -100 <= x /\ x <= 900

\* C8 as stated: after N ticks each cloud is at (x0 + N*v) reduced modulo 1000
\* into [-100, 900].
C8_AsStated ==
  \A i \in 1..Len(g.clouds) :
    Congruent(g.clouds[i].x, start[i].x, start[i].speed, RunningTicks)

\* Ticks until the first reset of a cloud that started at x0 with speed v.
FirstReset(x0, v) == ((900 - x0) \div v) + 1

\* C8 amended: the wrap is a reset that discards the overshoot: a tick
\* without Escape takes each cloud from x to x + v, and to exactly -100 when
\* x + v exceeds 900, whatever the overshoot; no other step moves a cloud.
C8_WrapIsReset ==
  [][\A i \in 1..Len(g.clouds) :
       LET c == g.clouds[i]
           x == g'.clouds[i].x
       IN  IF lastOp' = "Update" /\ ~upd'.in.esc
           THEN x = IF c.x + c.speed > 900 THEN -100 ELSE c.x + c.speed
           ELSE x = c.x]_vars

\* C8 witness: a cloud of speed 2 that left from 799 is reset for the second
\* time, and a cloud of speed 1 has been reset as well.
C8_Witness ==
  /\ Updated /\ status = "running"
  /\ \E i \in 1..Len(g.clouds) :
       /\ start[i].x = 799 /\ start[i].speed = 2
       /\ ticks > FirstReset(799, 2)
       /\ g.clouds[i].x = -100
  /\ \E j \in 1..Len(g.clouds) :
       start[j].speed = 1 /\ g.clouds[j].x < start[j].x

\* C9: the sun stays in [40,760] x [40,440], and during a drag it sits at the
\* pointer position minus the grab offset, clamped into that box.
C9_SunInBounds ==
  /\ 40 <= g.sunX /\ g.sunX <= 760
  /\ 40 <= g.sunY /\ g.sunY <= 440
  /\ (Updated /\ status = "running" /\ upd.in.held /\ g.isDraggingSun) =>
       LET tx == upd.in.cx - g.dragStartX
           ty == upd.in.cy - g.dragStartY
       IN  /\ g.sunX = IF tx < 40 THEN 40 ELSE IF tx > 760 THEN 760 ELSE tx
           /\ g.sunY = IF ty < 40 THEN 40 ELSE IF ty > 440 THEN 440 ELSE ty

\* C9 witness: the sun, grabbed at its centre, was dragged to the pointer
\* position (10,10) and sits at the clamped target (40,40).
C9_Witness ==
  /\ Updated /\ g.isDraggingSun /\ upd.in.held
  /\ upd.in.cx = 10 /\ upd.in.cy = 10
  /\ g.dragStartX = 0 /\ g.dragStartY = 0
  /\ g.sunX = 40 /\ g.sunY = 40

\* C10: every tree's y is in the ground band, 470 <= y <= 600.
C10_TreesInGroundBand ==
  \A i \in 1..Len(g.trees) : 470 <= g.trees[i].y /\ g.trees[i].y <= 600

\* The most recent Update handled a press that grabbed a target.
GrabbedNow ==
  Updated /\ status = "running" /\ upd.justPressed
  /\ (g.isDraggingSun \/ g.draggedTree # -1)

\* C11: while the button is held with a target grabbed, an Update puts the
\* target at the pointer position minus the grab offset (the sun clamped into
\* its box, the tree following the pointer in x); and the Update of the press
\* itself, the pointer not having moved, leaves the target where it was.
C11_DragFollowsPointer ==
  /\ (Updated /\ status = "running" /\ upd.in.held /\ g.isDraggingSun) =>
       /\ g.sunX = max(40, min(760, upd.in.cx - g.dragStartX))
       /\ g.sunY = max(40, min(440, upd.in.cy - g.dragStartY))
  /\ (Updated /\ status = "running" /\ upd.in.held /\ ~g.isDraggingSun
      /\ g.draggedTree # -1 /\ g.draggedTree < Len(g.trees)) =>
       g.trees[g.draggedTree + 1].x = upd.in.cx - g.dragTreeStartX
  /\ GrabbedNow => (upd.moved = {} /\ ~SunChanged)

\* A step is a tick with Escape: the game is left as it was and the loop ends.
QuitStep ==
  (lastOp' = "Update" /\ upd'.in.esc) => (g' = g /\ status' = "terminated")

\* A step is a tick without Escape: Update returns nil and the loop goes on.
NilStep ==
  (lastOp' = "Update" /\ ~upd'.in.esc) => status' = "running"

\* C12: a tick with Escape changes nothing of the game and ends the loop with
\* Termination, whatever else is pressed; no tick or frame follows it; and
\* every tick without Escape returns nil.
C12_QuitIsTerminal ==
  [][status = "running" /\ QuitStep /\ NilStep]_vars

\* C13: in a tick without Escape the toggle key flips menu.visible once, and
\* the other keys act on the overlay state after that flip: overlay visible,
\* Up/Down step the tree count, Left/Right the cloud count, S/D the shadow
\* intensity, and the density is untouched; overlay hidden, Up/Down step the
\* density and the tree count, cloud count and intensity are untouched.
C13_KeyRouting ==
  (Updated /\ ~upd.in.esc) =>
    LET pre == upd.pre
        in == upd.in
        m == g.menu
    IN  /\ m.visible = (pre.menu.visible # in.m)
        /\ m.visible =>
             /\ g.density = pre.density
             /\ m.treeDensity # pre.menu.treeDensity => (in.up \/ in.down)
             /\ m.cloudCount # pre.menu.cloudCount => (in.left \/ in.right)
             /\ m.treeShadow # pre.menu.treeShadow => (in.s \/ in.d)
             /\ (in.up /\ ~in.down /\ pre.menu.treeDensity < 20)
                  => m.treeDensity = pre.menu.treeDensity + 1
             /\ (in.down /\ ~in.up /\ pre.menu.treeDensity > 1)
                  => m.treeDensity = pre.menu.treeDensity - 1
             /\ (in.right /\ ~in.left /\ pre.menu.cloudCount < 100)
                  => m.cloudCount = pre.menu.cloudCount + 10
             /\ (in.left /\ ~in.right /\ pre.menu.cloudCount > 0)
                  => m.cloudCount = pre.menu.cloudCount - 10
             /\ (in.d /\ ~in.s /\ pre.menu.treeShadow.t < 20)
                  => m.treeShadow.t = pre.menu.treeShadow.t + 1
             /\ (in.s /\ ~in.d /\ pre.menu.treeShadow.t > 2)
                  => m.treeShadow.t = pre.menu.treeShadow.t - 1
        /\ ~m.visible =>
             /\ m.treeDensity = pre.menu.treeDensity
             /\ m.cloudCount = pre.menu.cloudCount
             /\ m.treeShadow = pre.menu.treeShadow
             /\ g.density # pre.density => (in.up \/ in.down)
             /\ (in.up /\ ~in.down /\ pre.density.t < 10)
                  => g.density.t = pre.density.t + 1
             /\ (in.down /\ ~in.up /\ pre.density.t > 0)
                  => g.density.t = pre.density.t - 1

\* C13 witness: M and Up pressed in one tick with the overlay hidden: the
\* overlay is shown and Up has grown the tree count, not the density.
C13_Witness ==
  /\ Updated /\ upd.in.m /\ upd.in.up /\ ~upd.in.esc
  /\ ~upd.pre.menu.visible /\ g.menu.visible
  /\ g.menu.treeDensity = upd.pre.menu.treeDensity + 1
  /\ g.density = upd.pre.density

\* The press point of the most recent Update lies in the sun's circle.
PressOnSun ==
  LET dx == upd.in.cx - upd.pre.sunX
      dy == upd.in.cy - upd.pre.sunY
  IN  dx * dx + dy * dy <= 40 * 40

\* The trees (0-based) whose hit rectangle contains that press point:
\* |dx| < 0.4*size and tree.y - 1.2*size <= y <= tree.y.
PressOnTrees ==
  {i \in 0..(Len(upd.pressTrees) - 1) :
     LET t == upd.pressTrees[i + 1]
         dx == upd.in.cx - t.x
     IN  /\ -4 * t.size < 10 * dx /\ 10 * dx < 4 * t.size
         /\ 10 * t.y - 12 * t.size <= 10 * upd.in.cy
         /\ upd.in.cy <= t.y}

\* C14: a press grabs at most one target: the sun if the press point lies in
\* its circle, whatever trees contain the point; otherwise the lowest-index
\* tree whose hit rectangle contains the point; nothing if nothing is hit.
C14_HitPriority ==
  (Updated /\ upd.justPressed) =>
    /\ ~(g.isDraggingSun /\ g.draggedTree # -1)
    /\ g.isDraggingSun = PressOnSun
    /\ (~PressOnSun /\ PressOnTrees # {}) =>
         (g.draggedTree \in PressOnTrees
          /\ \A j \in PressOnTrees : g.draggedTree <= j)
    /\ (PressOnSun \/ PressOnTrees = {}) => g.draggedTree = -1

\* C14 witness: the press point lies in the sun's circle and in the hit
\* rectangle of a tree, and the sun alone is grabbed.
C14_Witness ==
  /\ Updated /\ upd.justPressed
  /\ PressOnSun /\ PressOnTrees # {}
  /\ g.isDraggingSun /\ g.draggedTree = -1

\* The place of a draw call in the order of C15 as stated (shadows of clouds
\* and of trees in one layer) ...
LayerAsStated(kind) ==
  CASE kind = "sky" -> 1
    [] kind = "sun" -> 2
    [] kind = "ground" -> 3
    [] kind \in {"cloudShadow", "cloudShadowNone", "treeShadow"} -> 4
    [] kind = "treeBody" -> 5
    [] kind = "cloud" -> 6
    [] kind \in {"overlay", "hint"} -> 7

\* ... and in the order with each tree's shadow in the layer of the trees.
Layer(kind) == IF kind = "treeShadow" THEN 5 ELSE LayerAsStated(kind)

\* C15 as stated: the draw calls of a frame come in the order sky, sun,
\* ground, all shadows, tree bodies, clouds, overlay.
C15_AsStated ==
  Drawn =>
    \A j, k \in 1..Len(drw.events) :
      j < k => LayerAsStated(drw.events[j].kind) <= LayerAsStated(drw.events[k].kind)

\* C15 amended: the order is sky, sun, ground, cloud shadows, trees, clouds,
\* overlay (or hint text); within the trees each tree's shadow is blitted
\* immediately before that tree's body, so the shadow of a later tree comes
\* after the body of an earlier one.
C15_DrawOrder ==
  Drawn =>
    LET ev == drw.events
    IN  /\ Len(ev) >= 4
        /\ ev[1].kind = "sky" /\ ev[2].kind = "sun" /\ ev[3].kind = "ground"
        /\ ev[Len(ev)].kind \in {"overlay", "hint"}
        /\ \A j, k \in 1..Len(ev) :
             j < k => Layer(ev[j].kind) <= Layer(ev[k].kind)
        /\ \A k \in 1..Len(ev) :
             /\ ev[k].kind = "treeShadow" =>
                  (ev[k + 1].kind = "treeBody" /\ ev[k + 1].index = ev[k].index)
             /\ ev[k].kind = "treeBody" =>
                  (ev[k - 1].kind = "treeShadow" /\ ev[k - 1].index = ev[k].index)
             /\ Layer(ev[k].kind) \in {1, 2, 3, 7} =>
                  \A j \in 1..Len(ev) : ev[j].kind = ev[k].kind => j = k

\* C15 witness: a frame with the overlay, a cloud that casts a shadow and is
\* drawn, and several trees.
C15_Witness ==
  /\ Drawn
  /\ \E k \in 1..Len(drw.events) : drw.events[k].kind = "cloudShadow"
  /\ \E k \in 1..Len(drw.events) : drw.events[k].kind = "cloud"
  /\ \E k \in 1..Len(drw.events) : drw.events[k].kind = "overlay"
  /\ Cardinality({k \in 1..Len(drw.events) : drw.events[k].kind = "treeBody"}) >= 2

\* The clouds (0-based) a Draw passed to drawCloudShadow / to drawCloud, and
\* the number of calls of each.
ShadowPass ==
  {drw.events[k].index :
     k \in {j \in 1..Len(drw.events) :
              drw.events[j].kind \in {"cloudShadow", "cloudShadowNone"}}}

BodyPass ==
  {drw.events[k].index :
     k \in {j \in 1..Len(drw.events) : drw.events[j].kind = "cloud"}}

CloudCallCount ==
  Cardinality({j \in 1..Len(drw.events) :
                 drw.events[j].kind \in {"cloudShadow", "cloudShadowNone", "cloud"}})

\* C16: a Draw passes exactly the stored clouds 0..n-1 to the shadow pass and
\* to the body pass, once each, where n is menu.cloudCount with the overlay
\* visible and floor(density * 100), as float64 computes it, with the
\* overlay hidden; n is at most 100, there are always 100 stored clouds, and
\* with the overlay hidden and density 0.2, as at startup, n is 20.
C16_ActiveClouds ==
  /\ Len(g.clouds) = 100
  /\ Drawn =>
       LET d == drw.pre.density
           n == IF drw.pre.menu.visible THEN drw.pre.menu.cloudCount
                ELSE FloorTimes(d, 100)
       IN  /\ 0 <= n /\ n <= 100
           /\ ShadowPass = 0..(n - 1)
           /\ BodyPass = 0..(n - 1)
           /\ CloudCallCount = 2 * n
           /\ ~drw.pre.menu.visible => (10 * d.t - 1 <= n /\ n <= 10 * d.t)
           /\ (~drw.pre.menu.visible /\ d = [t |-> 2, e |-> 8]) => n = 20

\* C16 witness: the overlay hidden and the density stepped up seven times
\* from 0.2, to 0.8999999999999999: the Draw drew the clouds 0..88.
C16_Witness ==
  /\ Drawn /\ ~g.menu.visible
  /\ g.density = [t |-> 9, e |-> -64]
  /\ BodyPass = 0..88 /\ ShadowPass = 0..88

\* C17: draggedTree is -1 or an index of g.trees, so that the indexed write
\* of the tree drag never goes out of range.
C17_DraggedTreeValid ==
  /\ g.draggedTree = -1 \/ (0 <= g.draggedTree /\ g.draggedTree < Len(g.trees))
  /\ status # "panicked"

\* C18: after a tick (without Escape) in which the button is not held nothing
\* is grabbed; a target becomes grabbed only in a tick that handles a press;
\* and the sun or a tree is moved only by a tick in which the button is
\* held and that target is the grabbed one.
C18_DragSession ==
  /\ (Updated /\ ~upd.in.esc /\ ~upd.in.held) =>
       (~g.isDraggingSun /\ g.draggedTree = -1)
  /\ (g.isDraggingSun /\ ~upd.pre.isDraggingSun) => upd.justPressed
  /\ (g.draggedTree # -1 /\ g.draggedTree # upd.pre.draggedTree) => upd.justPressed
  /\ SunChanged => (upd.in.held /\ g.isDraggingSun)
  /\ upd.moved # {} =>
       (upd.in.held /\ ~g.isDraggingSun /\ upd.moved = {g.draggedTree + 1})

\* C18 witness: a tick without the button ended the drag of a tree that the
\* drag had moved off its start position.
C18_Witness ==
  /\ Updated /\ ~upd.in.held /\ ~upd.in.esc
  /\ upd.pre.draggedTree = 0 /\ g.draggedTree = -1
  /\ g.trees[1].y # TreeLayout[1].y

\* C19: a step changes sunX or sunY only if it is a tick in which the button
\* is held and isDraggingSun was already true when the tick began; a tick
\* without that, whatever keys are pressed, and a Draw leave the sun alone.
C19_SunMovedByDragOnly ==
  [][(g'.sunX # g.sunX \/ g'.sunY # g.sunY) =>
       (lastOp' = "Update" /\ upd'.in.held /\ g.isDraggingSun)]_vars

\* C19 witness: the sun, dragged to (40,40), stayed there through the tick
\* that released it.
C19_Witness ==
  /\ Updated /\ ~upd.in.held /\ upd.pre.isDraggingSun
  /\ upd.pre.sunX = 40 /\ upd.pre.sunY = 40 /\ g.sunX = 40 /\ g.sunY = 40

\* The positions in drw.events of the tree bodies a Draw drew.
BodyCalls == {k \in 1..Len(drw.events) : drw.events[k].kind = "treeBody"}

\* C20: a Draw draws each stored tree once, in nondecreasing order of y; the
\* image it blits for a tree and the validity flag are those of the stored
\* tree afterwards; and the trees keep their storage order.
C20_BackToFront ==
  Drawn =>
    LET ev == drw.events
        old == drw.pre.trees
    IN  /\ Len(g.trees) = Len(old)
        /\ \A i \in 1..Len(old) :
             /\ SameTree(g.trees[i], old[i])
             /\ g.trees[i].shadowUpdated
             /\ Cardinality({k \in BodyCalls : ev[k].index = i - 1}) = 1
        /\ \A k \in BodyCalls : ev[k].index \in 0..(Len(old) - 1)
        /\ \A j, k \in BodyCalls :
             j < k => old[ev[j].index + 1].y <= old[ev[k].index + 1].y
        /\ \A k \in 1..Len(ev) :
             ev[k].kind = "treeShadow" => g.trees[ev[k].index + 1].shadow = ev[k].image

\* C20 witness: a Draw that rasterized a shadow and drew a tree stored later
\* before a tree stored earlier, and two trees of equal y in either order.
C20_Witness ==
  /\ Drawn /\ drw.rast # {}
  /\ \E j, k \in BodyCalls :
       /\ j < k /\ drw.events[j].index > drw.events[k].index
       /\ drw.pre.trees[drw.events[j].index + 1].y
            < drw.pre.trees[drw.events[k].index + 1].y
  /\ \E j, k \in BodyCalls :
       /\ j < k /\ drw.events[j].index > drw.events[k].index
       /\ drw.pre.trees[drw.events[j].index + 1].y
            = drw.pre.trees[drw.events[k].index + 1].y

\* C21: in no state are isDraggingSun true and draggedTree different from -1
\* together (a press is handled only in a tick that follows a tick with the
\* button up, which has cleared both).
C21_OneGrabAtATime == ~(g.isDraggingSun /\ g.draggedTree # -1)

\* C21 witness: the sun is grabbed by a press that follows a finished drag of
\* tree 0, which that drag had moved off its start position.
C21_Witness ==
  /\ Updated /\ upd.justPressed /\ g.isDraggingSun /\ g.draggedTree = -1
  /\ g.trees[1].y # TreeLayout[1].y

\* A step moves cloud i as the cloud loop does, or leaves it alone.
CloudStep(i) ==
  LET c == g.clouds[i]
      x == g'.clouds[i].x
  IN  \/ x = c.x
      \/ /\ lastOp' = "Update" /\ ~upd'.in.esc
         /\ c.x + c.speed <= 900 => x = c.x + c.speed
         /\ c.x + c.speed > 900 => x = -100

\* C22: every cloud's x stays in [-100, 900], a step that would carry it past
\* 900 placing it at exactly -100; the clouds are never added or removed, and
\* a cloud's y, speed, size and opacity stay as NewGame drew them.
C22_CloudsInWrapRange ==
  /\ [](/\ Len(g.clouds) = Len(start)
        /\ \A i \in 1..Len(g.clouds) :
             /\ -100 <= g.clouds[i].x /\ g.clouds[i].x <= 900
             /\ g.clouds[i].y = start[i].y
             /\ g.clouds[i].speed = start[i].speed
             /\ g.clouds[i].size = start[i].size
             /\ g.clouds[i].opacity = start[i].opacity)
  /\ [][\A i \in 1..Len(g.clouds) : CloudStep(i)]_vars

\* C22 witness: a cloud that reached x = 900 exactly, stayed for that tick,
\* and was placed at -100 by the next.
C22_Witness ==
  /\ Updated /\ status = "running"
  /\ \E i \in 1..Len(g.clouds) :
       /\ start[i].x = 798 /\ start[i].speed = 2
       /\ ticks = FirstReset(798, 2) /\ g.clouds[i].x = -100

\* C23: with Escape never pressed and the ticks going on, every cloud is
\* reset to x = -100 again and again, and after each reset it comes to have
\* x in the visible range [0, 800], whatever keys and pointer events occur.
\* With the resets recurring, "visible after each reset" is the same as
\* "visible again and again", which is how the second conjunct states it.
C23_PerpetualMotion ==
  \A i \in 1..maxClouds :
    /\ []<>(g.clouds[i].x = -100)
    /\ []<>(0 <= g.clouds[i].x /\ g.clouds[i].x <= 800)

\* C23 witness: with the overlay toggled by a key and the sun grabbed by the
\* pointer, a cloud is back in the visible range to the left of where it
\* started, that is, after a reset.
C23_Witness ==
  /\ Updated /\ g.menu.visible /\ g.isDraggingSun
  /\ \E i \in 1..Len(g.clouds) :
       /\ 0 <= g.clouds[i].x /\ g.clouds[i].x <= 800
       /\ g.clouds[i].x < start[i].x

====
